---- MODULE Spec2Model ----
(***************************************************************************)
(* Furigana alignment of auto-jrubby: the script classifier, the           *)
(* orthography reconstructor, the ruby segmenter and the annotation loop   *)
(* of the three analyze entry points (unidic plugin, ipadic plugin, root   *)
(* library).                                                               *)
(*                                                                         *)
(* A string is a sequence of Unicode codepoints (Rust's chars()); a byte   *)
(* string is a sequence of integers 0..255.  Indices into Rust vectors are *)
(* 0-based in the source and are kept 0-based in the variables; the        *)
(* operators add 1 where they index a TLA+ sequence.                       *)
(***************************************************************************)
EXTENDS Integers, Sequences, FiniteSets, TLC

VARIABLES
    \* build_ruby_segments: arguments and locals
    surface, reading, s_pos, segments, buffer_s, r_idx, end_idx, dropped, pcS,
    \* reconstruct_orthography: argument (with surface) and locals
    phonetic, s_idx, p_idx, tail_orthography, reconstructed, pcR,
    \* analyze: dictionary variant, request text, tokenizer output and locals
    variant, text, tokens, tok_idx, cursor_byte, result_list, pcA,
    \* analyze: the request, the dictionary singleton, the user dictionary, the
    \* returned bytes, and the record of the stages run and of how the request ended
    request, dictionary_loaded, user_dictionary, output, stages, outcome

segVars == <<surface, reading, s_pos, segments, buffer_s, r_idx, end_idx, dropped, pcS>>
recVars == <<phonetic, s_idx, p_idx, tail_orthography, reconstructed, pcR>>
anaVars == <<variant, text, tokens, tok_idx, cursor_byte, result_list, pcA>>
reqVars == <<request, dictionary_loaded, user_dictionary, output, stages, outcome>>
vars == <<segVars, recVars, anaVars, reqVars>>

(***************************************************************************)
(* Bounds of the explored inputs.                                          *)
(***************************************************************************)
MaxSurfaceLen == 3
MaxReadingLen == 3

\* All sequences over S of length at most n.
SeqsUpTo(S, n) == UNION {[1..k -> S] : k \in 0..n}

\* The "no reading" sentinel "*".
Star == <<42>>

\* Surfaces of the segmenter runs: 食 (kanji), べ た (hiragana), '*'.
SegSurfaceChars == {39135, 12409, 12383, 42}
\* Readings of the segmenter runs: タ ベ (katakana), '*', 食.
SegReadingChars == {12479, 12505, 42, 39135}

(***************************************************************************)
(* Script classifier.                                                      *)
(***************************************************************************)
hira_to_kata(c) == IF c >= 12353 /\ c <= 12438 THEN c + 96 ELSE c

is_hiragana(c) == c >= 12352 /\ c <= 12447

is_kanji(c) ==
    \/ (c >= 19968 /\ c <= 40959)
    \/ (c >= 13312 /\ c <= 19903)
    \/ (c >= 131072 /\ c <= 173791)

contains_kanji(s) == \E i \in 1..Len(s) : is_kanji(s[i])

(***************************************************************************)
(* Ruby segmenter: build_ruby_segments.                                    *)
(***************************************************************************)
RubySegment(t, r) == [text |-> t, ruby |-> r]

\* read_chars[a..b] of the source (0-based, b exclusive).
Slice(s, a, b) == SubSeq(s, a + 1, b)

\* Mutant: the fast path tests the sentinel only.
IsFastPathSentinelOnly(sur, rd) == rd = Star

\* build_ruby_segments' first test.
IsFastPath(sur, rd) == rd = Star \/ sur = rd

\* Mutant: the last occurrence of the marker is taken instead of the first.
PositionLast(rem, c) ==
    IF \E j \in 1..Len(rem) : rem[j] = c
    THEN (CHOOSE j \in 1..Len(rem) :
             rem[j] = c /\ \A k \in (j + 1)..Len(rem) : rem[k] # c) - 1
    ELSE -1

\* remaining_reading.iter().position(|&c| c == s_kata): the 0-based offset of
\* the first occurrence of c in rem, -1 for None.
RECURSIVE PositionFrom(_, _, _)
PositionFrom(rem, c, k) ==
    IF k > Len(rem) THEN -1
    ELSE IF rem[k] = c THEN k - 1
    ELSE PositionFrom(rem, c, k + 1)

Position(rem, c) == PositionFrom(rem, c, 1)

\* Mutant: the cursor steps one character too far.
AdvanceTwo(r, kanji_reading_len) == r + kanji_reading_len + 2

\* r_idx += kanji_reading_len + 1
Advance(r, kanji_reading_len) == r + kanji_reading_len + 1

\* if !buffer_s.is_empty() { ... buffer_s.clear(); }
FlushBuffer(st, read_chars, kanji_reading_len) ==
    IF st.buffer_s # <<>>
    THEN LET end == st.r_idx + kanji_reading_len
         IN  IF end <= Len(read_chars)
             THEN [st EXCEPT !.segments =
                                Append(@, RubySegment(st.buffer_s,
                                                      Slice(read_chars, st.r_idx, end))),
                             !.buffer_s = <<>>,
                             !.end_idx = end]
             ELSE [st EXCEPT !.buffer_s = <<>>,
                             !.end_idx = end,
                             !.dropped = TRUE]
    ELSE st

\* One iteration of `for &s_char in &sur_chars`.
ScanStep(st, s_char, read_chars) ==
    LET s_kata == hira_to_kata(s_char)
        is_hira == s_char # s_kata
        pos == IF is_hira /\ st.r_idx < Len(read_chars)
               THEN Position(Slice(read_chars, st.r_idx, Len(read_chars)), s_kata)
               ELSE -1
    IN  IF pos # -1
        THEN LET fl == FlushBuffer(st, read_chars, pos)
             IN  [fl EXCEPT !.segments = Append(@, RubySegment(<<s_char>>, <<>>)),
                            !.r_idx = Advance(st.r_idx, pos)]
        ELSE [st EXCEPT !.buffer_s = Append(@, s_char)]

\* Mutant: the buffer left after the scan is not emitted.
FinalFlushMissing(st, read_chars) == st.segments

\* The flush after the loop and the returned vector.
FinalFlush(st, read_chars) ==
    IF st.buffer_s # <<>>
    THEN Append(st.segments,
                RubySegment(st.buffer_s,
                            IF st.r_idx < Len(read_chars)
                            THEN Slice(read_chars, st.r_idx, Len(read_chars))
                            ELSE <<>>))
    ELSE st.segments

\* The locals after `let mut r_idx = 0`.
ScanInit == [segments |-> <<>>, buffer_s |-> <<>>, r_idx |-> 0,
             end_idx |-> 0, dropped |-> FALSE]

RECURSIVE ScanFrom(_, _, _, _)
ScanFrom(st, sur_chars, read_chars, k) ==
    IF k > Len(sur_chars) THEN st
    ELSE ScanFrom(ScanStep(st, sur_chars[k], read_chars), sur_chars, read_chars, k + 1)

\* build_ruby_segments as a function of its arguments.
build_ruby_segments(sur, rd) ==
    IF IsFastPath(sur, rd)
    THEN <<RubySegment(sur, <<>>)>>
    ELSE FinalFlush(ScanFrom(ScanInit, sur, rd, 1), rd)

\* The scan's locals as a record, and back.
SegState == [segments |-> segments, buffer_s |-> buffer_s, r_idx |-> r_idx,
             end_idx |-> end_idx, dropped |-> dropped]

RecIdle ==
    /\ phonetic = <<>> /\ s_idx = 0 /\ p_idx = 0 /\ tail_orthography = <<>>
    /\ reconstructed = <<>> /\ pcR = "idle"

\* No request is being decoded or encoded.
ReqIdle ==
    /\ request = [kind |-> "params", text |-> <<>>, user_dict_csv |-> "none"]
    /\ dictionary_loaded = FALSE /\ user_dictionary = "None"
    /\ output = <<>> /\ stages = <<>> /\ outcome = "pending"

AnaIdle ==
    /\ variant = "none" /\ text = <<>> /\ tokens = <<>> /\ tok_idx = 0
    /\ cursor_byte = 0 /\ result_list = <<>> /\ pcA = "idle"
    /\ ReqIdle

InitSegment ==
    /\ surface \in SeqsUpTo(SegSurfaceChars, MaxSurfaceLen)
    /\ reading \in SeqsUpTo(SegReadingChars, MaxReadingLen)
    /\ s_pos = 0 /\ segments = <<>> /\ buffer_s = <<>> /\ r_idx = 0
    /\ end_idx = 0 /\ dropped = FALSE
    /\ pcS = "start"
    /\ RecIdle
    /\ AnaIdle

\* Lines 128-133: the fast path returns one ruby-less segment.
BuildFast ==
    /\ pcS = "start"
    /\ IsFastPath(surface, reading)
    /\ segments' = <<RubySegment(surface, <<>>)>>
    /\ pcS' = "done"
    /\ UNCHANGED <<surface, reading, s_pos, buffer_s, r_idx, end_idx, dropped>>
    /\ UNCHANGED <<recVars, anaVars, reqVars>>

\* Lines 135-140: the general path sets up its locals.
BuildBegin ==
    /\ pcS = "start"
    /\ ~IsFastPath(surface, reading)
    /\ pcS' = "scan"
    /\ UNCHANGED <<surface, reading, s_pos, segments, buffer_s, r_idx, end_idx, dropped>>
    /\ UNCHANGED <<recVars, anaVars, reqVars>>

\* Lines 142-177: one iteration of the loop over the surface.
ScanIter ==
    /\ pcS = "scan"
    /\ s_pos < Len(surface)
    /\ LET st == ScanStep(SegState, surface[s_pos + 1], reading)
       IN  /\ segments' = st.segments
           /\ buffer_s' = st.buffer_s
           /\ r_idx' = st.r_idx
           /\ end_idx' = st.end_idx
           /\ dropped' = st.dropped
    /\ s_pos' = s_pos + 1
    /\ UNCHANGED <<surface, reading, pcS>>
    /\ UNCHANGED <<recVars, anaVars, reqVars>>

\* Lines 179-191: the final flush and the return.
ScanEnd ==
    /\ pcS = "scan"
    /\ s_pos = Len(surface)
    /\ segments' = FinalFlush(SegState, reading)
    /\ buffer_s' = <<>>
    /\ pcS' = "done"
    /\ UNCHANGED <<surface, reading, s_pos, r_idx, end_idx, dropped>>
    /\ UNCHANGED <<recVars, anaVars, reqVars>>

NextSegment == BuildFast \/ BuildBegin \/ ScanIter \/ ScanEnd

SpecSegment == InitSegment /\ [][NextSegment]_vars

(***************************************************************************)
(* Orthography reconstructor: reconstruct_orthography.                     *)
(***************************************************************************)
\* Surfaces of the reconstructor runs: 行 (kanji), こ う (hiragana letters),
\* ゝ (U+309D: in the hiragana block, not a convertible letter).
RecSurfaceChars == {34892, 12371, 12358, 12445}
\* Phonetic readings of the reconstructor runs: イ コ ウ (katakana), ー.
RecPhoneticChars == {12452, 12467, 12454, 12540}

\* let is_exact_match = s_kata == p_char
IsExactMatch(s_char, p_char) == hira_to_kata(s_char) = p_char

\* Mutant: the long-vowel rule asks for a convertible hiragana letter.
IsLongVowelMatchLettersOnly(s_char, p_char) ==
    p_char = 12540 /\ hira_to_kata(s_char) # s_char

\* let is_long_vowel_match = p_char == 'ー' && is_hiragana(s_char)
IsLongVowelMatch(s_char, p_char) == p_char = 12540 /\ is_hiragana(s_char)

\* The loop goes on: both cursors are in range, the surface character is not
\* kanji and the pair is compatible.  si and pi are the isize cursors.
ReconAccepts(s_chars, p_chars, si, pi) ==
    /\ si >= 0 /\ pi >= 0
    /\ ~is_kanji(s_chars[si + 1])
    /\ \/ IsExactMatch(s_chars[si + 1], p_chars[pi + 1])
       \/ IsLongVowelMatch(s_chars[si + 1], p_chars[pi + 1])

\* Mutant: the adopted character is pushed at the end of the tail.
PushTail(tail, c) == Append(tail, c)

\* tail_orthography.insert(0, s_kata)
InsertTail(tail, c) == <<c>> \o tail

\* Mutant: the head is sliced with an exclusive end, 0..p_idx.
HeadPhoneticExclusive(p_chars, pi) == IF pi >= 0 THEN SubSeq(p_chars, 1, pi) ELSE <<>>

\* let head_phonetic = if p_idx >= 0 { p_chars[0..=p_idx] } else { "" }
HeadPhonetic(p_chars, pi) == IF pi >= 0 THEN SubSeq(p_chars, 1, pi + 1) ELSE <<>>

RECURSIVE ReconLoop(_, _, _, _, _)
ReconLoop(s_chars, p_chars, si, pi, tail) ==
    IF ReconAccepts(s_chars, p_chars, si, pi)
    THEN ReconLoop(s_chars, p_chars, si - 1, pi - 1,
                   InsertTail(tail, hira_to_kata(s_chars[si + 1])))
    ELSE HeadPhonetic(p_chars, pi) \o tail

\* reconstruct_orthography as a function of its arguments.
reconstruct_orthography(sur, ph) ==
    ReconLoop(sur, ph, Len(sur) - 1, Len(ph) - 1, <<>>)

SegLocalsIdle ==
    /\ reading = <<>> /\ s_pos = 0 /\ segments = <<>>
    /\ buffer_s = <<>> /\ r_idx = 0 /\ end_idx = 0 /\ dropped = FALSE
    /\ pcS = "idle"

\* Lines 77-83: the cursors start on the last codepoints.
InitReconstruct ==
    /\ surface \in SeqsUpTo(RecSurfaceChars, MaxSurfaceLen)
    /\ phonetic \in SeqsUpTo(RecPhoneticChars, MaxReadingLen)
    /\ s_idx = Len(surface) - 1
    /\ p_idx = Len(phonetic) - 1
    /\ tail_orthography = <<>>
    /\ reconstructed = <<>>
    /\ pcR = "loop"
    /\ SegLocalsIdle
    /\ AnaIdle

\* Lines 85-109: an accepted iteration of the backward scan.
ReconIter ==
    /\ pcR = "loop"
    /\ ReconAccepts(surface, phonetic, s_idx, p_idx)
    /\ tail_orthography' = InsertTail(tail_orthography, hira_to_kata(surface[s_idx + 1]))
    /\ s_idx' = s_idx - 1
    /\ p_idx' = p_idx - 1
    /\ UNCHANGED <<phonetic, reconstructed, pcR>>
    /\ UNCHANGED <<segVars, anaVars, reqVars>>

\* Lines 85, 91-93, 110-124: the scan stops and the result is formatted.
ReconReturn ==
    /\ pcR = "loop"
    /\ ~ReconAccepts(surface, phonetic, s_idx, p_idx)
    /\ reconstructed' = HeadPhonetic(phonetic, p_idx) \o tail_orthography
    /\ pcR' = "done"
    /\ UNCHANGED <<phonetic, s_idx, p_idx, tail_orthography>>
    /\ UNCHANGED <<segVars, anaVars, reqVars>>

NextReconstruct == ReconIter \/ ReconReturn

SpecReconstruct == InitReconstruct /\ [][NextReconstruct]_vars

(***************************************************************************)
(* analyze: the annotation loop of the three entry points.                 *)
(*                                                                         *)
(* The tokenizer is outside the repository: its output is any list of      *)
(* tokens in increasing byte order, non-overlapping, on character          *)
(* boundaries, each with the surface text[byte_start..byte_end] and a      *)
(* details list drawn from the dictionary's rows.                          *)
(***************************************************************************)
MaxTextLen == 3

\* Request texts: ' ' (one byte), 行 (kanji, three bytes), こ (hiragana, three bytes).
TextChars == {32, 34892, 12371}

\* The dictionary variants: the two plugins and the root library.
Variants == {"unidic", "ipadic", "root"}

\* A char's UTF-8 encoding, as in a Rust String's bytes.
Utf8Encode(c) ==
    IF c < 128 THEN <<c>>
    ELSE IF c < 2048 THEN <<192 + (c \div 64), 128 + (c % 64)>>
    ELSE IF c < 65536
         THEN <<224 + (c \div 4096), 128 + ((c \div 64) % 64), 128 + (c % 64)>>
         ELSE <<240 + (c \div 262144), 128 + ((c \div 4096) % 64),
                128 + ((c \div 64) % 64), 128 + (c % 64)>>

\* params.text.as_bytes()
\* The encodings of the chars lo..hi of str, concatenated (by halves, to keep
\* the evaluation shallow on long strings).
RECURSIVE AsBytesRange(_, _, _)
AsBytesRange(str, lo, hi) ==
    IF lo > hi THEN <<>>
    ELSE IF lo = hi THEN Utf8Encode(str[lo])
    ELSE AsBytesRange(str, lo, (lo + hi) \div 2)
         \o AsBytesRange(str, ((lo + hi) \div 2) + 1, hi)

AsBytes(str) == AsBytesRange(str, 1, Len(str))

\* The second byte a lead byte allows (UTF-8's well-formed ranges).
SecondByteOk(b0, b1) ==
    /\ b1 >= (IF b0 = 224 THEN 160 ELSE IF b0 = 240 THEN 144 ELSE 128)
    /\ b1 <= (IF b0 = 237 THEN 159 ELSE IF b0 = 244 THEN 143 ELSE 191)

IsContinuation(b) == b >= 128 /\ b <= 191

\* The length a lead byte announces, 0 for a byte that cannot lead.
SequenceLen(b0) ==
    IF b0 < 128 THEN 1
    ELSE IF b0 >= 194 /\ b0 <= 223 THEN 2
    ELSE IF b0 >= 224 /\ b0 <= 239 THEN 3
    ELSE IF b0 >= 240 /\ b0 <= 244 THEN 4
    ELSE 0

\* How many bytes from position k on form a prefix of a well-formed sequence.
ValidPrefixLen(bs, k) ==
    LET n == SequenceLen(bs[k])
        has(j) == k + j <= Len(bs)
    IN  IF n <= 1 THEN n
        ELSE IF ~(has(1) /\ SecondByteOk(bs[k], bs[k + 1])) THEN 1
        ELSE IF n = 2 THEN 2
        ELSE IF ~(has(2) /\ IsContinuation(bs[k + 2])) THEN 2
        ELSE IF n = 3 THEN 3
        ELSE IF ~(has(3) /\ IsContinuation(bs[k + 3])) THEN 3
        ELSE 4

\* The codepoint of the well-formed sequence of n bytes at position k.
DecodeAt(bs, k, n) ==
    IF n = 1 THEN bs[k]
    ELSE IF n = 2 THEN (bs[k] - 192) * 64 + (bs[k + 1] - 128)
    ELSE IF n = 3
         THEN (bs[k] - 224) * 4096 + (bs[k + 1] - 128) * 64 + (bs[k + 2] - 128)
         ELSE (bs[k] - 240) * 262144 + (bs[k + 1] - 128) * 4096
              + (bs[k + 2] - 128) * 64 + (bs[k + 3] - 128)

\* String::from_utf8_lossy(..).to_string(): well-formed sequences decode, every
\* maximal ill-formed part becomes U+FFFD.
RECURSIVE FromUtf8LossyFrom(_, _)
FromUtf8LossyFrom(bs, k) ==
    IF k > Len(bs) THEN <<>>
    ELSE LET n == SequenceLen(bs[k])
             m == ValidPrefixLen(bs, k)
         IN  IF n > 0 /\ m = n
             THEN <<DecodeAt(bs, k, n)>> \o FromUtf8LossyFrom(bs, k + n)
             ELSE <<65533>> \o FromUtf8LossyFrom(bs, k + (IF m = 0 THEN 1 ELSE m))

FromUtf8Lossy(bs) == FromUtf8LossyFrom(bs, 1)

\* "Whitespace"
Whitespace == <<87, 104, 105, 116, 101, 115, 112, 97, 99, 101>>

\* Dictionary rows of the unidic variant: 17 fields with the conjugation type
\* at index 4, the lemma reading at index 6 and the phonological surface at
\* index 9 (0-based), the other fields "*" but the part of speech.
UnidicRow(ctype, lemma, pron) ==
    [i \in 1..17 |-> IF i = 1 THEN <<78>>
                     ELSE IF i = 5 THEN ctype
                     ELSE IF i = 7 THEN lemma
                     ELSE IF i = 10 THEN pron
                     ELSE Star]

\* Dictionary rows of the ipadic variant: 9 fields with the reading at index 7.
IpadicRow(rd) ==
    [i \in 1..9 |-> IF i = 1 THEN <<78>> ELSE IF i = 8 THEN rd ELSE Star]

\* The details of a word the dictionary does not know: the single field "UNK".
UnknownRow == << <<85, 78, 75>> >>

\* The details the tokenizer may attach to a token: an uninflected word with
\* lemma reading イク and phonological surface イコ, the same inflected
\* (conjugation type "V"), a word without phonological surface, an unknown
\* word; for ipadic a word read イコ, a word without reading, an unknown word.
DetailRows(v) ==
    IF v = "unidic"
    THEN { UnidicRow(Star, <<12452, 12463>>, <<12452, 12467>>),
           UnidicRow(<<86>>, <<12452, 12463>>, <<12452, 12467>>),
           UnidicRow(Star, <<12452, 12463>>, Star),
           UnknownRow }
    ELSE { IpadicRow(<<12452, 12467>>), IpadicRow(Star), UnknownRow }

\* The byte offset of the end of the first i chars of str.
RECURSIVE ByteOffset(_, _)
ByteOffset(str, i) ==
    IF i = 0 THEN 0 ELSE ByteOffset(str, i - 1) + Len(Utf8Encode(str[i]))

\* The ways the tokenizer may cut a text of n chars: each char is outside
\* every token ("G"), begins a token ("B") or continues one ("C").
Cuts(n) ==
    {lab \in [1..n -> {"G", "B", "C"}] :
        \A i \in 1..n : lab[i] = "C" => (i > 1 /\ lab[i - 1] # "G")}

\* The 1-based char positions where the tokens of a cut begin, in order.
RECURSIVE TokenStarts(_, _)
TokenStarts(lab, i) ==
    IF i > Len(lab) THEN <<>>
    ELSE (IF lab[i] = "B" THEN <<i>> ELSE <<>>) \o TokenStarts(lab, i + 1)

\* The last char position of the token that begins at position b.
RECURSIVE TokenLast(_, _)
TokenLast(lab, b) ==
    IF b < Len(lab) /\ lab[b + 1] = "C" THEN TokenLast(lab, b + 1) ELSE b

\* The tokenizer's output for a cut and a choice of details.
MakeTokens(str, lab, rows) ==
    LET starts == TokenStarts(lab, 1)
    IN  [k \in 1..Len(starts) |->
            [byte_start |-> ByteOffset(str, starts[k] - 1),
             byte_end |-> ByteOffset(str, TokenLast(lab, starts[k])),
             surface |-> SubSeq(str, starts[k], TokenLast(lab, starts[k])),
             details |-> rows[k]]]

TokenLists(str, v) ==
    UNION { {MakeTokens(str, lab, rows) :
                rows \in [1..Len(TokenStarts(lab, 1)) -> DetailRows(v)]} :
            lab \in Cuts(Len(str)) }

\* Mutant: a gap is also reported when the token starts at the cursor.
HasGapOrTouches(byte_start, cursor) == byte_start >= cursor

\* if token.byte_start > cursor_byte
HasGap(byte_start, cursor) == byte_start > cursor

\* vec!["*".to_string(); 17] (unidic), vec!["*".to_string(); 9] (ipadic)
DummyDetails(v) == [i \in 1..(IF v = "unidic" THEN 17 ELSE 9) |-> Star]

\* The annotation synthesized for the bytes [from, to) no token covers.
GapInfo(v, text_bytes, from, to) ==
    LET gap_text == FromUtf8Lossy(SubSeq(text_bytes, from + 1, to))
    IN  [surface |-> gap_text,
         details |-> [DummyDetails(v) EXCEPT ![1] = Whitespace],
         ruby_segments |-> <<RubySegment(gap_text, <<>>)>>]

\* details.get(idx) ... .unwrap_or("*")
GetDetail(details, idx) == IF idx < Len(details) THEN details[idx + 1] ELSE Star

\* The unidic plugin's base reading: index 9 unless it is missing or "*", then
\* index 6, then "*".
SelectPhonetic(details_vec) ==
    IF 9 < Len(details_vec) /\ details_vec[10] # Star
    THEN details_vec[10]
    ELSE GetDetail(details_vec, 6)

\* The reading the unidic plugin hands to build_ruby_segments.
FinalReading(sur, ph) ==
    IF ph = Star THEN Star ELSE reconstruct_orthography(sur, ph)

\* The reading a token is segmented with, per variant.
TokenReading(v, token) ==
    IF v = "unidic"
    THEN FinalReading(token.surface, SelectPhonetic(token.details))
    ELSE GetDetail(token.details, 7)

\* The ruby segments of a token: the unidic plugin gates on contains_kanji,
\* the ipadic plugin and the root library call build_ruby_segments directly.
TokenRuby(v, token) ==
    IF v = "unidic" /\ ~contains_kanji(token.surface)
    THEN <<RubySegment(token.surface, <<>>)>>
    ELSE build_ruby_segments(token.surface, TokenReading(v, token))

\* The annotation of a tokenizer token: a flat details list in the plugins,
\* named fields in the root library.
TokenInfo(v, token) ==
    IF v = "root"
    THEN [surface |-> token.surface,
          pos |-> GetDetail(token.details, 0),
          sub_pos |-> GetDetail(token.details, 1),
          reading |-> GetDetail(token.details, 7),
          base |-> GetDetail(token.details, 6),
          ruby_segments |-> TokenRuby(v, token)]
    ELSE [surface |-> token.surface,
          details |-> token.details,
          ruby_segments |-> TokenRuby(v, token)]

\* The request has been decoded and tokenized; the annotation loop starts.
InitAnalyze ==
    /\ variant \in Variants
    /\ text \in SeqsUpTo(TextChars, MaxTextLen)
    /\ tokens \in TokenLists(text, variant)
    /\ tok_idx = 0
    /\ cursor_byte = 0
    /\ result_list = <<>>
    /\ pcA = "annotate"
    /\ surface = <<>>
    /\ SegLocalsIdle
    /\ RecIdle
    /\ ReqIdle

\* One iteration of the plugins' loop over the tokens: the gap before the
\* token, the token's annotation, the cursor.  surface, phonetic, reading and
\* segments hold the iteration's locals of these names.
AnnotatePlugin ==
    /\ pcA = "annotate"
    /\ variant \in {"unidic", "ipadic"}
    /\ tok_idx < Len(tokens)
    /\ LET token == tokens[tok_idx + 1]
           gap == IF HasGap(token.byte_start, cursor_byte)
                  THEN <<GapInfo(variant, AsBytes(text), cursor_byte, token.byte_start)>>
                  ELSE <<>>
           withRuby == variant = "ipadic" \/ contains_kanji(token.surface)
       IN  /\ result_list' = result_list \o gap \o <<TokenInfo(variant, token)>>
           /\ cursor_byte' = token.byte_end
           /\ surface' = token.surface
           /\ phonetic' = IF variant = "unidic" /\ withRuby
                          THEN SelectPhonetic(token.details) ELSE phonetic
           /\ reading' = IF withRuby THEN TokenReading(variant, token) ELSE reading
           /\ segments' = TokenRuby(variant, token)
    /\ tok_idx' = tok_idx + 1
    /\ UNCHANGED <<s_pos, buffer_s, r_idx, end_idx, dropped, pcS>>
    /\ UNCHANGED <<s_idx, p_idx, tail_orthography, reconstructed, pcR>>
    /\ UNCHANGED <<variant, text, tokens, pcA>>
    /\ UNCHANGED reqVars

\* One application of the root library's map closure: no gap, no cursor.
AnnotateRoot ==
    /\ pcA = "annotate"
    /\ variant = "root"
    /\ tok_idx < Len(tokens)
    /\ LET token == tokens[tok_idx + 1]
       IN  /\ result_list' = Append(result_list, TokenInfo(variant, token))
           /\ surface' = token.surface
           /\ reading' = TokenReading(variant, token)
           /\ segments' = TokenRuby(variant, token)
    /\ tok_idx' = tok_idx + 1
    /\ UNCHANGED <<s_pos, buffer_s, r_idx, end_idx, dropped, pcS>>
    /\ UNCHANGED recVars
    /\ UNCHANGED <<variant, text, tokens, cursor_byte, pcA>>
    /\ UNCHANGED reqVars

\* After the plugins' loop: the gap after the last token, then the list is
\* handed to the encoder.
FinishPlugin ==
    /\ pcA = "annotate"
    /\ variant \in {"unidic", "ipadic"}
    /\ tok_idx = Len(tokens)
    /\ result_list' =
           IF cursor_byte < Len(AsBytes(text))
           THEN Append(result_list,
                       GapInfo(variant, AsBytes(text), cursor_byte, Len(AsBytes(text))))
           ELSE result_list
    /\ pcA' = "done"
    /\ UNCHANGED <<variant, text, tokens, tok_idx, cursor_byte>>
    /\ UNCHANGED <<segVars, recVars, reqVars>>

\* After the root library's map: the list is handed to the encoder.
FinishRoot ==
    /\ pcA = "annotate"
    /\ variant = "root"
    /\ tok_idx = Len(tokens)
    /\ pcA' = "done"
    /\ UNCHANGED <<variant, text, tokens, tok_idx, cursor_byte, result_list>>
    /\ UNCHANGED <<segVars, recVars, reqVars>>

NextAnalyze == AnnotatePlugin \/ AnnotateRoot \/ FinishPlugin \/ FinishRoot

SpecAnalyze == InitAnalyze /\ [][NextAnalyze]_vars

(***************************************************************************)
(* analyze: the whole request, from the request bytes to the returned      *)
(* bytes.  serde_json, the user-dictionary loader and the tokenizer are    *)
(* outside the repository.  The request bytes are concrete and the text of *)
(* a decode error is the one serde_json displays for them; whether the     *)
(* user dictionary compiles is an attribute of the request; a failure of   *)
(* the dictionary load, of the tokenizer or of the encoder is a choice,    *)
(* and the text such an error displays as is drawn from ErrorCauses.       *)
(***************************************************************************)
MaxRequestTextLen == 2

\* What an error of the user-dictionary loader, of the tokenizer or of the
\* encoder may display as: an opaque text, here "EOF" or "e".
ErrorCauses == {<<69, 79, 70>>, <<101>>}

\* The texts of the requests that are a bare JSON string.
EchoTexts == {<<12288>>, <<123, 34, 115, 117, 114, 102, 97, 99, 101, 34, 58>>, <<34892>>}

\* The requests, by the shape of their bytes (InputBytes).  Five shapes do
\* not decode to InputParams: no bytes at all, "{", "[]", "{}" and a bare
\* JSON string.  The sixth is an object with a text and with no
\* user_dict_csv, with one that compiles ("good") or with one the loader
\* rejects ("bad").
Requests ==
    {[kind |-> k, text |-> <<>>, user_dict_csv |-> "none"] :
        k \in {"empty", "open", "array", "object"}}
    \cup {[kind |-> "string", text |-> t, user_dict_csv |-> "none"] :
             t \in EchoTexts}
    \cup {[kind |-> "params", text |-> t, user_dict_csv |-> c] :
             t \in SeqsUpTo(TextChars, MaxRequestTextLen),
             c \in {"none", "good", "bad"}}

\* Mutant: the error text is returned without its "Error: " prefix.
ErrorResponseNoPrefix(message, cause) == AsBytes(message \o cause)

\* format!("Error: <message>: {}", e).into_bytes()
ErrorResponse(message, cause) == AsBytes(<<69, 114, 114, 111, 114, 58, 32>> \o message \o cause)

\* The messages of the four failures.
InvalidJson == <<73, 110, 118, 97, 108, 105, 100, 32, 74, 83, 79, 78, 58, 32>>
UserDictionaryFailed == <<70, 97, 105, 108, 101, 100, 32, 116, 111, 32, 98, 117, 105, 108, 100, 32, 117, 115, 101, 114, 32, 100, 105, 99, 116, 105, 111, 110, 97, 114, 121, 58, 32>>
TokenizationFailed == <<84, 111, 107, 101, 110, 105, 122, 97, 116, 105, 111, 110, 32, 102, 97, 105, 108, 101, 100, 58, 32>>
SerializationFailed == <<83, 101, 114, 105, 97, 108, 105, 122, 97, 116, 105, 111, 110, 32, 102, 97, 105, 108, 101, 100, 58, 32>>

\* A hexadecimal digit, lower case.
HexDigit(n) == IF n < 10 THEN 48 + n ELSE 87 + n

\* serde_json's escape of one char of a string: the quote, the backslash and
\* the control characters; everything else is written as it is.
JsonEscape(c) ==
    IF c = 34 THEN <<92, 34>>
    ELSE IF c = 92 THEN <<92, 92>>
    ELSE IF c = 8 THEN <<92, 98>>
    ELSE IF c = 9 THEN <<92, 116>>
    ELSE IF c = 10 THEN <<92, 110>>
    ELSE IF c = 12 THEN <<92, 102>>
    ELSE IF c = 13 THEN <<92, 114>>
    ELSE IF c < 32 THEN <<92, 117, 48, 48, HexDigit(c \div 16), HexDigit(c % 16)>>
    ELSE <<c>>

RECURSIVE JsonEscapeRange(_, _, _)
JsonEscapeRange(str, lo, hi) ==
    IF lo > hi THEN <<>>
    ELSE IF lo = hi THEN JsonEscape(str[lo])
    ELSE JsonEscapeRange(str, lo, (lo + hi) \div 2)
         \o JsonEscapeRange(str, ((lo + hi) \div 2) + 1, hi)

JsonEscapeAll(str) == JsonEscapeRange(str, 1, Len(str))

\* A string as JSON.
JsonString(str) == <<34>> \o JsonEscapeAll(str) \o <<34>>

\* Already encoded items joined by commas.
RECURSIVE JsonJoin(_)
JsonJoin(items) ==
    IF items = <<>> THEN <<>>
    ELSE IF Len(items) = 1 THEN items[1]
    ELSE items[1] \o <<44>> \o JsonJoin(Tail(items))

\* A Vec as JSON, its items already encoded.
JsonArray(items) == <<91>> \o JsonJoin(items) \o <<93>>

\* A struct as JSON: its fields in declaration order, values already encoded.
JsonObject(fields) ==
    <<123>>
    \o JsonJoin([i \in 1..Len(fields) |->
                    JsonString(fields[i][1]) \o <<58>> \o fields[i][2]])
    \o <<125>>

\* #[derive(Serialize)] struct RubySegment
JsonRubySegment(seg) ==
    JsonObject(<< <<<<116, 101, 120, 116>>, JsonString(seg.text)>>,
                  <<<<114, 117, 98, 121>>, JsonString(seg.ruby)>> >>)

JsonRubySegments(segs) ==
    JsonArray([i \in 1..Len(segs) |-> JsonRubySegment(segs[i])])

\* #[derive(Serialize)] struct TokenInfo: a flat details list in the plugins,
\* named fields in the root library.
JsonTokenInfo(v, info) ==
    IF v = "root"
    THEN JsonObject(<< <<<<115, 117, 114, 102, 97, 99, 101>>, JsonString(info.surface)>>,
                       <<<<112, 111, 115>>, JsonString(info.pos)>>,
                       <<<<115, 117, 98, 95, 112, 111, 115>>, JsonString(info.sub_pos)>>,
                       <<<<114, 101, 97, 100, 105, 110, 103>>, JsonString(info.reading)>>,
                       <<<<98, 97, 115, 101>>, JsonString(info.base)>>,
                       <<<<114, 117, 98, 121, 95, 115, 101, 103, 109, 101, 110, 116, 115>>, JsonRubySegments(info.ruby_segments)>> >>)
    ELSE JsonObject(<< <<<<115, 117, 114, 102, 97, 99, 101>>, JsonString(info.surface)>>,
                       <<<<100, 101, 116, 97, 105, 108, 115>>,
                         JsonArray([i \in 1..Len(info.details) |->
                                       JsonString(info.details[i])])>>,
                       <<<<114, 117, 98, 121, 95, 115, 101, 103, 109, 101, 110, 116, 115>>, JsonRubySegments(info.ruby_segments)>> >>)

\* serde_json::to_vec(&result_list), when it succeeds.
ToVec(v, infos) ==
    AsBytes(JsonArray([i \in 1..Len(infos) |-> JsonTokenInfo(v, infos[i])]))

\* The CSV text of a request's user dictionary.
CsvData(c) ==
    IF c = "good" THEN <<34892, 44, 21517, 35422, 44, 12467, 12454>>
    ELSE <<34892>>

\* The bytes analyze receives for a request.
InputBytes(req) ==
    CASE req.kind = "empty" -> <<>>
      [] req.kind = "open" -> <<123>>
      [] req.kind = "array" -> <<91, 93>>
      [] req.kind = "object" -> <<123, 125>>
      [] req.kind = "string" -> AsBytes(JsonString(req.text))
      [] req.kind = "params" ->
            AsBytes(JsonObject(
                IF req.user_dict_csv = "none"
                THEN << <<<<116, 101, 120, 116>>, JsonString(req.text)>> >>
                ELSE << <<<<116, 101, 120, 116>>, JsonString(req.text)>>,
                        <<<<117, 115, 101, 114, 95, 100, 105, 99, 116, 95, 99, 115, 118>>,
                          JsonString(CsvData(req.user_dict_csv))>> >>))

\* A natural number in decimal.
RECURSIVE Decimal(_)
Decimal(n) ==
    IF n < 10 THEN <<48 + n>> ELSE Decimal(n \div 10) \o <<48 + (n % 10)>>

\* A positive number in hexadecimal, lower case, without leading zeros.
RECURSIVE LowerHex(_)
LowerHex(n) ==
    IF n < 16 THEN <<HexDigit(n)>> ELSE LowerHex(n \div 16) \o <<HexDigit(n % 16)>>

\* The chars {:?} is modelled for: Basic Latin and Latin-1, the combining
\* diacritical marks, general punctuation, CJK symbols and punctuation,
\* hiragana, katakana and the CJK unified ideographs up to U+9FEA.
DebugChars ==
    (0..255) \cup (768..879) \cup (8192..8303) \cup (12288..12543)
    \cup (19968..40938)

\* The chars of DebugChars that extend a grapheme: the combining diacritical
\* marks, the zero width non-joiner, the ideographic tone marks and the
\* combining voiced sound marks.
IsGraphemeExtend(c) ==
    c \in (768..879) \cup {8204} \cup (12330..12335) \cup {12441, 12442}

\* The chars of DebugChars that are printable: not a control, a format
\* char, a separator other than the space, or an unassigned code point.
IsPrintable(c) ==
    /\ c \in DebugChars
    /\ c >= 32
    /\ c \notin 127..160
    /\ c # 173
    /\ c \notin 8192..8207
    /\ c \notin 8232..8239
    /\ c \notin 8287..8303
    /\ c # 12288
    /\ c \notin {12352, 12439, 12440}

\* {:?} of one char of a str, for a char of DebugChars: NUL, tab, line feed,
\* carriage return, the quote and the backslash have their own escapes; a
\* char that extends a grapheme or is not printable is written \u{hex}; any
\* other char is written as it is.
DebugEscape(c) ==
    CASE c = 0 -> <<92, 48>>
      [] c = 9 -> <<92, 116>>
      [] c = 13 -> <<92, 114>>
      [] c = 10 -> <<92, 110>>
      [] c = 34 -> <<92, 34>>
      [] c = 92 -> <<92, 92>>
      [] c \in DebugChars \ {0, 9, 10, 13, 34, 92}
            /\ (IsGraphemeExtend(c) \/ ~IsPrintable(c)) ->
            <<92, 117, 123>> \o LowerHex(c) \o <<125>>
      [] c \in DebugChars \ {0, 9, 10, 13, 34, 92}
            /\ ~IsGraphemeExtend(c) /\ IsPrintable(c) -> <<c>>

RECURSIVE DebugEscapeAll(_)
DebugEscapeAll(str) ==
    IF str = <<>> THEN <<>> ELSE DebugEscape(Head(str)) \o DebugEscapeAll(Tail(str))

\* {:?} of a str.
DebugStr(str) == <<34>> \o DebugEscapeAll(str) \o <<34>>

\* The number of fields of InputParams: text and user_dict_csv in the
\* plugins, text alone in the root library.
InputParamsFields(v) == IF v = "root" THEN 1 ELSE 2

\* What the error of serde_json::from_slice::<InputParams> displays as: the
\* message and the position the parser stopped at.  The requests have one
\* line, so the column is the number of bytes read, here all of them.
FromSliceError(v, req) ==
    (CASE req.kind = "empty" -> <<69, 79, 70, 32, 119, 104, 105, 108, 101, 32, 112, 97, 114, 115, 105, 110, 103, 32, 97, 32, 118, 97, 108, 117, 101>>
       [] req.kind = "open" -> <<69, 79, 70, 32, 119, 104, 105, 108, 101, 32, 112, 97, 114, 115, 105, 110, 103, 32, 97, 110, 32, 111, 98, 106, 101, 99, 116>>
       [] req.kind = "array" ->
             <<105, 110, 118, 97, 108, 105, 100, 32, 108, 101, 110, 103, 116, 104, 32, 48, 44, 32, 101, 120, 112, 101, 99, 116, 101, 100, 32, 115, 116, 114, 117, 99, 116, 32, 73, 110, 112, 117, 116, 80, 97, 114, 97, 109, 115, 32, 119, 105, 116, 104, 32>>
             \o Decimal(InputParamsFields(v))
             \o (IF InputParamsFields(v) = 1 THEN <<32, 101, 108, 101, 109, 101, 110, 116>> ELSE <<32, 101, 108, 101, 109, 101, 110, 116, 115>>)
       [] req.kind = "object" -> <<109, 105, 115, 115, 105, 110, 103, 32, 102, 105, 101, 108, 100, 32, 96, 116, 101, 120, 116, 96>>
       [] req.kind = "string" ->
             <<105, 110, 118, 97, 108, 105, 100, 32, 116, 121, 112, 101, 58, 32, 115, 116, 114, 105, 110, 103, 32>> \o DebugStr(req.text)
             \o <<44, 32, 101, 120, 112, 101, 99, 116, 101, 100, 32, 115, 116, 114, 117, 99, 116, 32, 73, 110, 112, 117, 116, 80, 97, 114, 97, 109, 115>>)
    \o <<32, 97, 116, 32, 108, 105, 110, 101, 32, 49, 32, 99, 111, 108, 117, 109, 110, 32>> \o Decimal(Len(InputBytes(req)))

\* analyze is entered with the request bytes; the dictionary singleton may
\* have been initialised by an earlier request.
InitRequest ==
    /\ variant \in Variants
    /\ request \in Requests
    /\ dictionary_loaded \in BOOLEAN
    /\ user_dictionary = "None"
    /\ output = <<>>
    /\ stages = <<>>
    /\ outcome = "pending"
    /\ text = <<>> /\ tokens = <<>> /\ tok_idx = 0 /\ cursor_byte = 0
    /\ result_list = <<>>
    /\ pcA = "decode"
    /\ surface = <<>>
    /\ SegLocalsIdle
    /\ RecIdle

\* The request ends with an error text.
ReturnError(stage, message, causes) ==
    /\ \E cause \in causes : output' = ErrorResponse(message, cause)
    /\ outcome' = stage
    /\ stages' = Append(stages, stage)
    /\ pcA' = "returned"

\* serde_json::from_slice fails.
DecodeFail ==
    /\ pcA = "decode"
    /\ request.kind # "params"
    /\ ReturnError("decode", InvalidJson, {FromSliceError(variant, request)})
    /\ UNCHANGED <<variant, text, tokens, tok_idx, cursor_byte, result_list>>
    /\ UNCHANGED <<request, dictionary_loaded, user_dictionary>>
    /\ UNCHANGED <<segVars, recVars>>

\* serde_json::from_slice yields the parameters.
DecodeOk ==
    /\ pcA = "decode"
    /\ request.kind = "params"
    /\ text' = request.text
    /\ stages' = Append(stages, "decode")
    /\ pcA' = "dictionary"
    /\ UNCHANGED <<variant, tokens, tok_idx, cursor_byte, result_list>>
    /\ UNCHANGED <<request, dictionary_loaded, user_dictionary, output, outcome>>
    /\ UNCHANGED <<segVars, recVars>>

\* get_dictionary() in the plugins, get_tokenizer() in the root library, which
\* has no user dictionary: the singleton is there already, or it is loaded
\* now and the load succeeds.
GetDictionary ==
    /\ pcA = "dictionary"
    /\ dictionary_loaded' = TRUE
    /\ stages' = Append(stages, "dictionary")
    /\ pcA' = IF variant = "root" THEN "tokenize" ELSE "userdict"
    /\ UNCHANGED <<variant, text, tokens, tok_idx, cursor_byte, result_list>>
    /\ UNCHANGED <<request, user_dictionary, output, outcome>>
    /\ UNCHANGED <<segVars, recVars>>

\* The singleton is empty and load_dictionary fails: expect() panics, analyze
\* returns no bytes and the singleton stays empty.
GetDictionaryPanic ==
    /\ pcA = "dictionary"
    /\ ~dictionary_loaded
    /\ outcome' = "panic"
    /\ stages' = Append(stages, "dictionary")
    /\ pcA' = "panicked"
    /\ UNCHANGED <<variant, text, tokens, tok_idx, cursor_byte, result_list>>
    /\ UNCHANGED <<request, dictionary_loaded, user_dictionary, output>>
    /\ UNCHANGED <<segVars, recVars>>

\* The request names no user dictionary.
UserDictNone ==
    /\ pcA = "userdict"
    /\ request.user_dict_csv = "none"
    /\ pcA' = "tokenize"
    /\ UNCHANGED <<variant, text, tokens, tok_idx, cursor_byte, result_list>>
    /\ UNCHANGED reqVars
    /\ UNCHANGED <<segVars, recVars>>

\* UserDictionaryLoader::load_from_csv_data yields the user dictionary.
UserDictOk ==
    /\ pcA = "userdict"
    /\ request.user_dict_csv = "good"
    /\ user_dictionary' = "Some"
    /\ stages' = Append(stages, "userdict")
    /\ pcA' = "tokenize"
    /\ UNCHANGED <<variant, text, tokens, tok_idx, cursor_byte, result_list>>
    /\ UNCHANGED <<request, dictionary_loaded, output, outcome>>
    /\ UNCHANGED <<segVars, recVars>>

\* UserDictionaryLoader::load_from_csv_data fails.
UserDictFail ==
    /\ pcA = "userdict"
    /\ request.user_dict_csv = "bad"
    /\ ReturnError("userdict", UserDictionaryFailed, ErrorCauses)
    /\ UNCHANGED <<variant, text, tokens, tok_idx, cursor_byte, result_list>>
    /\ UNCHANGED <<request, dictionary_loaded, user_dictionary>>
    /\ UNCHANGED <<segVars, recVars>>

\* tokenizer.tokenize yields the tokens; the annotation loop starts.
TokenizeOk ==
    /\ pcA = "tokenize"
    /\ tokens' \in TokenLists(text, variant)
    /\ stages' = Append(stages, "tokenize")
    /\ pcA' = "annotate"
    /\ UNCHANGED <<variant, text, tok_idx, cursor_byte, result_list>>
    /\ UNCHANGED <<request, dictionary_loaded, user_dictionary, output, outcome>>
    /\ UNCHANGED <<segVars, recVars>>

\* tokenizer.tokenize fails.
TokenizeFail ==
    /\ pcA = "tokenize"
    /\ ReturnError("tokenize", TokenizationFailed, ErrorCauses)
    /\ UNCHANGED <<variant, text, tokens, tok_idx, cursor_byte, result_list>>
    /\ UNCHANGED <<request, dictionary_loaded, user_dictionary>>
    /\ UNCHANGED <<segVars, recVars>>

\* serde_json::to_vec yields the response.
EncodeOk ==
    /\ pcA = "done"
    /\ output' = ToVec(variant, result_list)
    /\ outcome' = "ok"
    /\ stages' = Append(stages, "encode")
    /\ pcA' = "returned"
    /\ UNCHANGED <<variant, text, tokens, tok_idx, cursor_byte, result_list>>
    /\ UNCHANGED <<request, dictionary_loaded, user_dictionary>>
    /\ UNCHANGED <<segVars, recVars>>

\* serde_json::to_vec fails.
EncodeFail ==
    /\ pcA = "done"
    /\ ReturnError("encode", SerializationFailed, ErrorCauses)
    /\ UNCHANGED <<variant, text, tokens, tok_idx, cursor_byte, result_list>>
    /\ UNCHANGED <<request, dictionary_loaded, user_dictionary>>
    /\ UNCHANGED <<segVars, recVars>>

NextRequest ==
    \/ DecodeFail \/ DecodeOk \/ GetDictionary \/ GetDictionaryPanic
    \/ UserDictNone \/ UserDictOk \/ UserDictFail
    \/ TokenizeOk \/ TokenizeFail
    \/ AnnotatePlugin \/ AnnotateRoot \/ FinishPlugin \/ FinishRoot
    \/ EncodeOk \/ EncodeFail

SpecRequest == InitRequest /\ [][NextRequest]_vars

(***************************************************************************)
(* Claims about build_ruby_segments, under SpecSegment.                    *)
(***************************************************************************)
RECURSIVE ConcatText(_)
ConcatText(segs) ==
    IF segs = <<>> THEN <<>> ELSE Head(segs).text \o ConcatText(Tail(segs))

\* C1: the text fields of the returned segments, concatenated in order, are
\* the surface, character for character, whatever the reading.
C1_SegmentsCoverSurface ==
    pcS = "done" => ConcatText(segments) = surface

\* C1's case: a general-path run with a reading shorter than the surface that
\* returned several segments.
C1_Witness ==
    /\ pcS = "done"
    /\ ~(reading = Star \/ reading = surface)
    /\ Len(reading) < Len(surface)
    /\ Len(segments) >= 2
    /\ \E i \in 1..Len(segments) : Len(segments[i].text) >= 2

\* C5: when the reading is the sentinel "*" or equals the surface, the result
\* is the single segment {text: surface, ruby: ""}.
C5_FastPathSingleSegment ==
    (pcS = "done" /\ (reading = Star \/ reading = surface))
        => segments = <<[text |-> surface, ruby |-> <<>>]>>

\* C5's case: a kanji surface returned with a reading equal to it.
C5_Witness ==
    /\ pcS = "done"
    /\ reading = surface
    /\ reading # Star
    /\ \E i \in 1..Len(surface) : is_kanji(surface[i])

\* The least element of a non-empty set of integers.
MinOf(S) == CHOOSE x \in S : \A y \in S : x <= y

\* C8, one iteration: a convertible hiragana whose katakana form occurs in the
\* reading at or after r, first at offset p, flushes a non-empty buffer with
\* ruby reading[r, r+p), emits {s, ""} and moves r to r+p+1; any other
\* character is appended to the buffer.
C8_IterStep ==
    (pcS = "scan" /\ s_pos' = s_pos + 1) =>
        LET s == surface[s_pos + 1]
            sk == hira_to_kata(s)
            occ == {j \in (r_idx + 1)..Len(reading) : reading[j] = sk}
        IN  IF sk # s /\ occ # {}
            THEN LET p == MinOf(occ) - 1 - r_idx
                 IN  /\ segments' =
                            segments
                            \o (IF buffer_s # <<>>
                                THEN <<[text |-> buffer_s,
                                        ruby |-> SubSeq(reading, r_idx + 1, r_idx + p)]>>
                                ELSE <<>>)
                            \o <<[text |-> <<s>>, ruby |-> <<>>]>>
                     /\ buffer_s' = <<>>
                     /\ r_idx' = r_idx + p + 1
            ELSE /\ buffer_s' = Append(buffer_s, s)
                 /\ segments' = segments
                 /\ r_idx' = r_idx

\* C8, after the scan: a non-empty buffer is emitted with ruby reading[r..end].
C8_EndStep ==
    (pcS = "scan" /\ pcS' = "done") =>
        segments' = IF buffer_s # <<>>
                    THEN Append(segments,
                                [text |-> buffer_s,
                                 ruby |-> SubSeq(reading, r_idx + 1, Len(reading))])
                    ELSE segments

\* C8, the example: ("食べた", "タベタ") yields [{食, タ}, {べ, ""}, {た, ""}].
C8_Example ==
    (pcS = "done" /\ surface = <<39135, 12409, 12383>>
                  /\ reading = <<12479, 12505, 12479>>)
        => segments = << [text |-> <<39135>>, ruby |-> <<12479>>],
                         [text |-> <<12409>>, ruby |-> <<>>],
                         [text |-> <<12383>>, ruby |-> <<>>] >>

\* C8: every step of the general path is the step the claim describes, and
\* the example comes out as stated.
C8_AnchorSegmentation ==
    [][C8_IterStep /\ C8_EndStep]_vars /\ []C8_Example

\* C8's case: the example run has returned.
C8_Witness ==
    /\ pcS = "done"
    /\ surface = <<39135, 12409, 12383>>
    /\ reading = <<12479, 12505, 12479>>
    /\ Len(segments) = 3

\* C9, the state part: the cursor stays within the reading, every slice end
\* computed at a flush is within the reading, and the branch that clears the
\* buffer without emitting is not taken.
C9_Bounds ==
    /\ 0 <= r_idx /\ r_idx <= Len(reading)
    /\ end_idx <= Len(reading)
    /\ ~dropped

\* C9, the step part: a step that clears a non-empty buffer appends a segment
\* whose text is that buffer.
C9_FlushEmits ==
    (buffer_s # <<>> /\ buffer_s' = <<>>) =>
        \E i \in (Len(segments) + 1)..Len(segments') : segments'[i].text = buffer_s

\* C9: build_ruby_segments never reads the reading out of bounds and never
\* drops buffered text.
C9_InBoundsNoDrop ==
    []C9_Bounds /\ [][C9_FlushEmits]_vars

\* C9's case: a kanji run was flushed at an anchor and the cursor reached the
\* end of the reading.
C9_Witness ==
    /\ pcS = "done"
    /\ end_idx > 0
    /\ r_idx = Len(reading)
    /\ \E i \in 1..Len(segments) : segments[i].ruby # <<>>

(***************************************************************************)
(* Claims about reconstruct_orthography, under SpecReconstruct.            *)
(***************************************************************************)
\* The pair j characters from the right end (j = 1 is the last codepoint of
\* each string) is accepted by the reference scan.
RefAccepted(sur, ph, j) ==
    LET sc == sur[Len(sur) - j + 1]
        pc == ph[Len(ph) - j + 1]
        kanji == \/ (sc >= 19968 /\ sc <= 40959)
                 \/ (sc >= 13312 /\ sc <= 19903)
                 \/ (sc >= 131072 /\ sc <= 173791)
    IN  /\ ~kanji
        /\ \/ hira_to_kata(sc) = pc
           \/ (pc = 12540 /\ sc >= 12352 /\ sc <= 12447)

\* How many steps the reference scan accepts: the longest run of accepted
\* pairs counted from the right, within both strings.
RefAcceptedCount(sur, ph) ==
    LET lim == IF Len(sur) < Len(ph) THEN Len(sur) ELSE Len(ph)
        ok == {k \in 0..lim : \A j \in 1..k : RefAccepted(sur, ph, j)}
    IN  CHOOSE k \in ok : \A m \in ok : m <= k

\* The reference scan's result: the unconsumed phonetic prefix followed by
\* the katakana forms of the accepted surface characters.
RefReconstruct(sur, ph) ==
    LET k == RefAcceptedCount(sur, ph)
    IN  SubSeq(ph, 1, Len(ph) - k)
        \o [i \in 1..k |-> hira_to_kata(sur[Len(sur) - k + i])]

\* C6: reconstruct_orthography returns what the right-to-left reference scan
\* returns, and ("行こう", "イコー") gives "イコウ".
C6_ReconstructIsReferenceScan ==
    pcR = "done" =>
        /\ reconstructed = RefReconstruct(surface, phonetic)
        /\ (surface = <<34892, 12371, 12358>> /\ phonetic = <<12452, 12467, 12540>>)
               => reconstructed = <<12452, 12467, 12454>>

\* C6's case: the example has been reconstructed.
C6_Witness ==
    /\ pcR = "done"
    /\ surface = <<34892, 12371, 12358>>
    /\ phonetic = <<12452, 12467, 12540>>
    /\ Len(tail_orthography) = 2

\* The length of the surface's maximal trailing run of non-kanji characters.
TrailingKanaLen(sur) ==
    LET ok == {k \in 0..Len(sur) :
                  \A j \in 1..k : ~is_kanji(sur[Len(sur) - j + 1])}
    IN  CHOOSE k \in ok : \A m \in ok : m <= k

\* s ends with the katakana forms of the last k characters of sur.
EndsWithKataOfTail(s, sur, k) ==
    /\ Len(s) >= k
    /\ \A i \in 1..k : s[Len(s) - k + i] = hira_to_kata(sur[Len(sur) - k + i])

\* C7 as stated: for every non-sentinel phonetic reading the result ends with
\* the katakana forms of the surface's whole trailing kana run, mismatches
\* and short readings included.  It is stated here for the calls analyze
\* makes (a surface with a kanji) and a non-empty reading.
C7_AlwaysMatchesTrailingKana ==
    (pcR = "done" /\ phonetic # Star /\ phonetic # <<>> /\ contains_kanji(surface))
        => EndsWithKataOfTail(reconstructed, surface, TrailingKanaLen(surface))

\* C7 as amended: the result ends with the katakana forms of the whole
\* trailing kana run when the reading is at least as long as the run and
\* every character of the run is compatible with the phonetic character
\* aligned with it from the right.
C7_MatchesCompatibleTrailingKana ==
    (/\ pcR = "done"
     /\ phonetic # Star
     /\ Len(phonetic) >= TrailingKanaLen(surface)
     /\ \A j \in 1..TrailingKanaLen(surface) : RefAccepted(surface, phonetic, j))
        => EndsWithKataOfTail(reconstructed, surface, TrailingKanaLen(surface))

\* C7's case: a kanji followed by two kana, both compatible, one of them
\* against the long-vowel mark.
C7_Witness ==
    /\ pcR = "done"
    /\ Len(surface) = 3 /\ is_kanji(surface[1])
    /\ TrailingKanaLen(surface) = 2
    /\ Len(phonetic) = 3
    /\ \A j \in 1..2 : RefAccepted(surface, phonetic, j)
    /\ \E j \in 2..3 : phonetic[j] = 12540
    /\ reconstructed # phonetic

(***************************************************************************)
(* Claims about analyze, under SpecAnalyze.                                *)
(***************************************************************************)
RECURSIVE ConcatSurface(_)
ConcatSurface(infos) ==
    IF infos = <<>> THEN <<>> ELSE Head(infos).surface \o ConcatSurface(Tail(infos))

\* C2: for each of the three entry points, the surface fields of the emitted
\* annotations, concatenated in order, are the input text.
C2_SurfacesCoverText ==
    pcA = "done" => ConcatSurface(result_list) = text

\* C3: for every dictionary variant, a token whose surface has no kanji is
\* annotated with the single segment {text: surface, ruby: ""}, whatever
\* reading the dictionary supplies.
C3_KanaOnlyHasNoRuby ==
    \A i \in 1..Len(result_list) :
        ~contains_kanji(result_list[i].surface)
            => result_list[i].ruby_segments
                   = <<[text |-> result_list[i].surface, ruby |-> <<>>]>>

\* The reading C4's policy chooses from a unidic details list: with a
\* conjugation type other than "*" the phonological surface (index 9) unless
\* it is "*" or missing, otherwise the lemma reading (index 6), "*" if absent.
PolicyReading(d) ==
    LET ctype == IF Len(d) > 4 THEN d[5] ELSE <<42>>
        lemma == IF Len(d) > 6 THEN d[7] ELSE <<42>>
        pron == IF Len(d) > 9 THEN d[10] ELSE <<42>>
    IN  IF ctype # <<42>> /\ pron # <<42>> THEN pron ELSE lemma

\* C4: the reading the unidic plugin chooses for a token follows the
\* conjugation-dependent policy; an uninflected token whose two readings
\* differ gets its lemma reading.
C4_ConjugationDependentReading ==
    (/\ variant = "unidic"
     /\ tok_idx > 0
     /\ contains_kanji(tokens[tok_idx].surface))
        => phonetic = PolicyReading(tokens[tok_idx].details)

\* The bytes of the text no token covers, as the gaps 0..Len(tokens): gap k
\* lies after token k (after the start of the text for k = 0) and before
\* token k + 1 (before the end of the text for k = Len(tokens)).
GapFrom(k) == IF k = 0 THEN 0 ELSE tokens[k].byte_end

GapTo(k) ==
    IF k = Len(tokens)
    THEN ByteOffset(text, Len(text))
    ELSE tokens[k + 1].byte_start

NonEmptyGaps == {k \in 0..Len(tokens) : GapFrom(k) < GapTo(k)}

\* The chars of the text that lie in the bytes [from, to).
CharsBetween(from, to) ==
    LET first == CHOOSE i \in 0..Len(text) : ByteOffset(text, i) = from
        last == CHOOSE i \in 0..Len(text) : ByteOffset(text, i) = to
    IN  SubSeq(text, first + 1, last)

\* The annotation C10 describes for a gap with the given text.
ExpectedGapInfo(gap_text) ==
    [surface |-> gap_text,
     details |-> [i \in 1..(IF variant = "unidic" THEN 17 ELSE 9) |->
                     IF i = 1 THEN <<87, 104, 105, 116, 101, 115, 112, 97, 99, 101>>
                     ELSE <<42>>],
     ruby_segments |-> <<[text |-> gap_text, ruby |-> <<>>]>>]

\* C10: in the plugins the result holds one annotation per token and one per
\* non-empty gap and nothing else, in document order, and each gap's
\* annotation is the "Whitespace" annotation of the gap's text.
C10_GapAnnotations ==
    (pcA = "done" /\ variant \in {"unidic", "ipadic"}) =>
        /\ Len(result_list) = Len(tokens) + Cardinality(NonEmptyGaps)
        /\ \A k \in NonEmptyGaps :
               result_list[k + Cardinality({j \in NonEmptyGaps : j <= k})]
                   = ExpectedGapInfo(CharsBetween(GapFrom(k), GapTo(k)))
        /\ \A k \in 1..Len(tokens) :
               result_list[k + Cardinality({j \in NonEmptyGaps : j < k})].surface
                   = tokens[k].surface

\* C10's case: a plugin run over a text with a gap before the first token
\* and a gap after the last one.
C10_Witness ==
    /\ pcA = "done"
    /\ variant \in {"unidic", "ipadic"}
    /\ Len(tokens) >= 1
    /\ 0 \in NonEmptyGaps
    /\ Len(tokens) \in NonEmptyGaps
    /\ Len(result_list) = Len(tokens) + 2

(***************************************************************************)
(* A further claim about reconstruct_orthography, under SpecReconstruct.   *)
(***************************************************************************)
\* C12: the result has as many codepoints as the phonetic reading and differs
\* from it only where the reading holds the long-vowel mark 'ー'; a reading
\* without 'ー' is returned unchanged.
C12_DiffersOnlyAtLongVowel ==
    pcR = "done" =>
        /\ Len(reconstructed) = Len(phonetic)
        /\ \A i \in 1..Len(phonetic) :
               reconstructed[i] # phonetic[i] => phonetic[i] = 12540
        /\ (\A i \in 1..Len(phonetic) : phonetic[i] # 12540)
               => reconstructed = phonetic

\* C12's case: a reading with two long-vowel marks, one replaced by the
\* surface's kana and one kept, behind an unconsumed head.
C12_Witness ==
    /\ pcR = "done"
    /\ Len(phonetic) = 3
    /\ p_idx >= 0
    /\ \E i \in 1..3 : phonetic[i] = 12540 /\ reconstructed[i] # 12540
    /\ \E i \in 1..3 : phonetic[i] = 12540 /\ reconstructed[i] = 12540

(***************************************************************************)
(* Claim about the whole request, under SpecRequest.                       *)
(***************************************************************************)
\* needle occurs in hay as a contiguous run.
ContainsRun(hay, needle) ==
    \E i \in 0..(Len(hay) - Len(needle)) :
        \A j \in 1..Len(needle) : hay[i + j] = needle[j]

\* The place of a stage in the fixed order.
StageRank(st) ==
    CASE st = "decode" -> 1
      [] st = "dictionary" -> 2
      [] st = "userdict" -> 3
      [] st = "tokenize" -> 4
      [] st = "encode" -> 6

\* The details list carries no reading for the variant's selector.
MissingReading(v, d) ==
    LET absent(idx) == idx >= Len(d) \/ d[idx + 1] = <<42>>
    IN  IF v = "unidic" THEN absent(9) /\ absent(6) ELSE absent(7)

\* C11, a failed request: it has ended at the failing stage, the bytes begin
\* with "Error: " and hold no annotation, and a failure before the annotation
\* stage has produced no annotation at all.
C11_FailureIsErrorText ==
    outcome \in {"decode", "userdict", "tokenize", "encode"} =>
        /\ pcA = "returned"
        /\ stages[Len(stages)] = outcome
        /\ Len(output) >= 7
        /\ SubSeq(output, 1, 7) = <<69, 114, 114, 111, 114, 58, 32>>
        /\ ~ContainsRun(output, <<123, 34, 115, 117, 114, 102, 97, 99, 101, 34, 58>>)
        /\ outcome # "encode" => (result_list = <<>> /\ tok_idx = 0)

\* C11, the order: the stages run in the fixed order, the annotation between
\* tokenization and encoding; a decode failure comes before the dictionary is
\* touched and a user-dictionary failure before any tokenization.
C11_FixedOrder ==
    /\ \A i \in 1..(Len(stages) - 1) : StageRank(stages[i]) < StageRank(stages[i + 1])
    /\ (stages # <<>>) => stages[1] = "decode"
    /\ (tok_idx > 0 \/ result_list # <<>>)
           => \E i \in 1..Len(stages) : stages[i] = "tokenize"
    /\ (\E i \in 1..Len(stages) : stages[i] = "encode") => tok_idx = Len(tokens)
    /\ outcome = "decode" => stages = <<"decode">>
    /\ outcome = "userdict"
           => (tokens = <<>> /\ \A i \in 1..Len(stages) : stages[i] # "tokenize")
    /\ outcome = "panic"
           => (stages = <<"decode", "dictionary">> /\ output = <<>> /\ tokens = <<>>)

\* C11, the annotation stage: it has no error outcome (a request ends well,
\* with one of the four failures or with the panic of the dictionary load),
\* and a token without a reading gets the single ruby-less segment.
C11_AnnotationDegrades ==
    /\ outcome \in {"pending", "ok", "decode", "userdict", "tokenize", "encode", "panic"}
    /\ outcome = "panic" => tok_idx = 0
    /\ (tok_idx > 0 /\ MissingReading(variant, tokens[tok_idx].details))
           => segments = <<[text |-> tokens[tok_idx].surface, ruby |-> <<>>]>>
    /\ pcA \in {"done", "returned"} /\ outcome \in {"pending", "ok", "encode"}
           => Len(result_list) >= Len(tokens)

\* C11: a failure of decoding, of the user dictionary, of tokenization or of
\* encoding ends the request at that stage with an "Error: " text and no
\* annotation; the stages run in the fixed order; the annotation stage never
\* fails; and nothing runs once the request has ended.
C11_FailuresEndTheRequest ==
    /\ [](C11_FailureIsErrorText /\ C11_FixedOrder /\ C11_AnnotationDegrades)
    /\ [][outcome = "pending"]_vars

\* C11's case: a request with a compiled user dictionary whose annotations
\* were built, one of them for a token without reading, and whose encoding
\* failed.
C11_Witness ==
    /\ pcA = "returned"
    /\ outcome = "encode"
    /\ user_dictionary = "Some"
    /\ Len(result_list) >= 2
    /\ MissingReading(variant, tokens[tok_idx].details)

====
